---- MODULE Spec2Model ----
(***************************************************************************)
(* Verification model of the authentication / authorization core of        *)
(* tessera-sdk-py: the authorize guard with its decision cache, the        *)
(* API-key validator and authentication middleware, and the machine-token  *)
(* client.  The per-service REST clients (CustosClient, IdentiesClient,    *)
(* the token endpoint) are collaborators: a call to one of them is a       *)
(* nondeterministic choice among the results and exception classes it can  *)
(* deliver, and their construction is taken to succeed.                    *)
(***************************************************************************)
EXTENDS Integers, Sequences, FiniteSets, TLC

VARIABLES
    now,          \* wall clock of the cache store, in seconds
    settings,     \* get_settings(): cache flag, cache TTL, custos url
    cacheInit,    \* module global _authorization_cache is not None
    authzStore,   \* Redis keys of the "authorization" namespace
    guard,        \* one record per worker running authorization_dependency
    hSession,     \* X-API-Key in APIKeyHandler.identies_client.session.headers
    validator,    \* one record per thread running APIKeyHandler.validate
    mSession,     \* X-API-Key in the middleware's identies_client session
    mw,           \* one record per request in AuthenticationMiddleware
    m2mCfg,       \* settings and constructor arguments of M2MTokenClient
    tokenStore,   \* Redis keys of the "m2m_token" namespace
    clientTimeout,\* M2MTokenClient.timeout
    m2m,          \* one record per caller of get_token / get_token_sync
    authCfg,      \* settings read by Settings.get_auth_providers
    handler,      \* the TokenHandler: constructed or not, self.providers
    verifier,     \* a call of TokenHandler.verify in progress
    extract,      \* a header collection and what the extractors made of it
    databaseManager, \* module global _database_manager is not None
    dep           \* one record per call of verify_token_dependency

authzVars == <<now, settings, cacheInit, authzStore, guard>>
apiKeyVars == <<hSession, validator>>
mwVars == <<mSession, mw>>
m2mVars == <<m2mCfg, tokenStore, clientTimeout, m2m>>

tokenVars == <<authCfg, handler, verifier>>
extractVars == <<extract>>
depVars == <<databaseManager, dep>>

vars == <<authzVars, apiKeyVars, mwVars, m2mVars, tokenVars, extractVars,
          depVars>>

nonAuthzVars == <<apiKeyVars, mwVars, m2mVars, tokenVars, extractVars,
                  depVars>>
nonApiKeyVars == <<authzVars, mwVars, m2mVars, tokenVars, extractVars,
                   depVars>>
nonMwVars == <<authzVars, apiKeyVars, m2mVars, tokenVars, extractVars,
               depVars>>
nonM2mVars == <<settings, cacheInit, authzStore, guard, apiKeyVars, mwVars,
                tokenVars, extractVars, depVars>>
nonTokenVars == <<authzVars, apiKeyVars, mwVars, m2mVars, extractVars,
                  depVars>>
nonExtractVars == <<authzVars, apiKeyVars, mwVars, m2mVars, tokenVars,
                    depVars>>
nonDepVars == <<authzVars, apiKeyVars, mwVars, m2mVars, tokenVars,
                extractVars>>

(***************************************************************************)
(* Bounds.                                                                 *)
(***************************************************************************)
MaxTime == 3

GuardProcs == {"w1", "w2"}
ValThreads == {"t1", "t2"}
MwRequests == {"r1", "r2"}
TokenCallers == {"a1", "a2"}

(***************************************************************************)
(* Python values.  Strings that the code inspects (headers) are sequences  *)
(* of lexical chunks, so that startswith / slicing are computed.           *)
(***************************************************************************)
PyNone == "<None>"
Absent == "<absent>"

StartsWith(s, pre) ==
    /\ Len(s) >= Len(pre)
    /\ SubSeq(s, 1, Len(pre)) = pre

DropPrefix(s, pre) == SubSeq(s, Len(pre) + 1, Len(s))

BearerPrefix == <<"Bearer", " ">>

RECURSIVE Join(_)
Join(s) == IF s = <<>> THEN "" ELSE Head(s) \o Join(Tail(s))

\* dict.get(k, default) on a dict given as a set of <<key, value>> pairs
DictGet(d, k, default) ==
    IF \E pr \in d : pr[1] = k
    THEN (CHOOSE pr \in d : pr[1] = k)[2]
    ELSE default

(***************************************************************************)
(* Exception classes and the isinstance relation.                          *)
(***************************************************************************)
Parent(c) ==
    CASE c = "CustosError" -> "TesseraError"
      [] c = "CustosClientError" -> "TesseraClientError"
      [] c = "CustosServerError" -> "TesseraServerError"
      [] c = "CustosAuthenticationError" -> "TesseraAuthenticationError"
      [] c = "CustosNotFoundError" -> "TesseraNotFoundError"
      [] c = "CustosValidationError" -> "TesseraValidationError"
      [] c = "TesseraClientError" -> "TesseraError"
      [] c = "TesseraServerError" -> "TesseraError"
      [] c = "TesseraAuthenticationError" -> "TesseraError"
      [] c = "TesseraNotFoundError" -> "TesseraError"
      [] c = "TesseraValidationError" -> "TesseraError"
      [] c = "IdentiesClientError" -> "IdentiesError"
      [] c = "IdentiesServerError" -> "IdentiesError"
      [] c = "IdentiesAuthenticationError" -> "IdentiesError"
      [] c = "IdentiesNotFoundError" -> "IdentiesError"
      [] c = "IdentiesValidationError" -> "IdentiesError"
      [] OTHER -> "Exception"

RECURSIVE IsInstance(_, _)
IsInstance(c, base) ==
    IF c = base THEN TRUE
    ELSE IF c = "Exception" THEN FALSE
    ELSE IsInstance(Parent(c), base)

(***************************************************************************)
(* State of each component right after construction.                       *)
(***************************************************************************)
NoKey == "<no X-API-Key>"

IdleVal ==
    [pc |-> "idle", key |-> "", attached |-> FALSE, sent |-> <<>>,
     result |-> "none", err |-> "none"]

ApiKeyAtRest ==
    /\ hSession = NoKey
    /\ validator = [t \in ValThreads |-> IdleVal]

NoRequest == [path |-> <<>>, apikey |-> [has |-> FALSE, val |-> ""],
              auth |-> [has |-> FALSE, val |-> <<>>]]

IdleMw ==
    [pc |-> "idle", req |-> NoRequest, via |-> "none", user |-> "<absent>",
     sent |-> <<>>, jwt |-> 0, handler |-> 0, res |-> "none",
     status |-> "none", body |-> "none"]

MwAtRest ==
    /\ mSession = NoKey
    /\ mw = [r \in MwRequests |-> IdleMw]

NoCall == [sync |-> FALSE, client_id |-> "", client_secret |-> "",
           audience |-> "", timeout |-> 30, force |-> FALSE]

NoToken == [access_token |-> "", token_type |-> "", expires_in |-> 0]

IdleM2m ==
    [pc |-> "idle", call |-> NoCall, key |-> "", hit |-> FALSE,
     fault |-> FALSE, reads |-> 0, orig |-> 0, sentWith |-> 0,
     requests |-> 0,
     result |-> "none", token |-> NoToken]

M2mAtRest ==
    /\ m2mCfg = [client_id |-> "svc", client_secret |-> "sec",
                 audience |-> "api", buffer |-> 60, timeout |-> 30]
    /\ tokenStore = {}
    /\ clientTimeout = 30
    /\ m2m = [a \in TokenCallers |-> IdleM2m]

NoHandler == [state |-> "none", providers |-> <<>>, err |-> "none"]

NoLastError == [id |-> "", err |-> "none"]

IdleVerifier ==
    [pc |-> "idle", token |-> "", i |-> 0, tried |-> <<>>,
     last |-> NoLastError, result |-> "none", detail |-> "none",
     payload |-> ""]

TokenAtRest ==
    /\ authCfg = [kind |-> "oidc", providers |-> <<>>, urls |-> <<>>]
    /\ handler = NoHandler
    /\ verifier = IdleVerifier

NoHeaders == [get |-> TRUE, items |-> {}]

IdleExtract ==
    [headers |-> NoHeaders, called |-> {}, raised |-> {},
     hasBearer |-> FALSE, bearer |-> <<>>, hasKey |-> FALSE, key |-> <<>>]

ExtractAtRest == extract = IdleExtract

HandlersAtRest == TokenAtRest /\ ExtractAtRest

\* the requests that run verify_token_dependency
DepCallers == {"r1", "r2"}

IdleDep ==
    [pc |-> "idle", token |-> "", handed |-> FALSE, db |-> "none",
     result |-> "none", user |-> "none"]

DepAtRest ==
    /\ databaseManager = FALSE
    /\ dep = [r \in DepCallers |-> IdleDep]

NoGuardRequest ==
    [g |-> [action |-> "", resource |-> ""],
     auth |-> [has |-> FALSE, val |-> <<>>],
     user |-> [set |-> FALSE, id |-> "<absent>", user_id |-> "<absent>"],
     dom |-> ""]

AuthzAtRest ==
    /\ now = 0
    /\ settings = [enabled |-> FALSE, ttl |-> 300, url |-> TRUE]
    /\ cacheInit = FALSE
    /\ authzStore = {}
    /\ guard = [p \in GuardProcs |->
                 [pc |-> "idle", tup |-> [uid |-> "<None>",
                  action |-> "<None>", resource |-> "<None>",
                  domain |-> "<None>"], cache |-> FALSE,
                  hit |-> [found |-> FALSE, val |-> {}],
                  live |-> [found |-> FALSE, by |-> "none"],
                  prior |-> FALSE, fault |-> FALSE, verdict |-> "none",
                  err |-> "none", outcome |-> "none", calls |-> 0,
                  wlog |-> <<>>, resolved |-> FALSE, reads |-> 0,
                  req |-> NoGuardRequest]]

(***************************************************************************)
(* Cache (utils/cache.py) over the Redis store.  A store entry carries,    *)
(* besides key, value and expiry, the tuple and the outcome of the guard   *)
(* invocation that wrote it (history, not read by the code).               *)
(***************************************************************************)
DefaultTtl == 3600

Miss == [found |-> FALSE, val |-> {}]

GetCacheKey(namespace, key) == namespace \o ":" \o key

\* json.dumps / json.loads: a document wraps the value it encodes
JsonDumps(v) == <<"json", v>>
JsonLoads(doc) == doc[2]

\* redis GET and _deserialize_value: the live entry under the key, if any
StoreGet(store, rkey) ==
    IF \E e \in store : e.key = rkey /\ now < e.exp
    THEN [found |-> TRUE,
          val |-> JsonLoads((CHOOSE e \in store : e.key = rkey).val)]
    ELSE Miss

\* Cache.read: the stored value; None on a miss and on any store error
CacheRead(store, namespace, key, up) ==
    IF up THEN StoreGet(store, GetCacheKey(namespace, key)) ELSE Miss

\* ttl = ttl or self.default_ttl
WriteTtl(ttl) == IF ttl # 0 THEN ttl ELSE DefaultTtl

\* Cache.write: SETEX replaces the key wholesale; a store error is a no-op
CacheWrite(store, namespace, key, val, ttl, up, who) ==
    IF up
    THEN {e \in store : e.key # GetCacheKey(namespace, key)}
         \cup {[key |-> GetCacheKey(namespace, key), val |-> JsonDumps(val),
                exp |-> now + WriteTtl(ttl), tup |-> who.tup,
                by |-> who.outcome]}
    ELSE store

\* keys whose TTL has run out at time t are gone
Purge(store, t) == {e \in store : t < e.exp}

(***************************************************************************)
(* The authorize guard (utils/authorization_dependency.py).                *)
(***************************************************************************)
TtlChoices == {0, 1, 2}

NoHeader == [has |-> FALSE, val |-> <<>>]
Hdr(v) == [has |-> TRUE, val |-> v]

UserUnset == [set |-> FALSE, id |-> Absent, user_id |-> Absent]
User(i, u) == [set |-> TRUE, id |-> i, user_id |-> u]

ReadDoc == [action |-> "read", resource |-> "doc"]
ReadDocD == [action |-> "read", resource |-> "doc:d"]

\* invocations of the guard: the authorize(action, resource, ...) factory
\* it came from, the Authorization header, the principal slot, and what
\* the domain resolver does (a domain, or the exception it raises)
GuardRequests ==
    { [g |-> ReadDoc, auth |-> NoHeader, user |-> User("u1", Absent),
       dom |-> "d:1"],
      [g |-> ReadDoc, auth |-> Hdr(<<>>), user |-> User("u1", Absent),
       dom |-> "d:1"],
      [g |-> ReadDoc, auth |-> Hdr(<<"tok">>), user |-> UserUnset,
       dom |-> "d:1"],
      [g |-> ReadDoc, auth |-> Hdr(<<"Bearer", " ", "tok">>),
       user |-> User(Absent, PyNone), dom |-> "d:1"],
      [g |-> ReadDoc, auth |-> Hdr(<<"Bearer", " ", "tok">>),
       user |-> User("u1", Absent), dom |-> "Exception"],
      [g |-> ReadDoc, auth |-> Hdr(<<"Bearer", " ", "tok">>),
       user |-> User("u1", Absent), dom |-> "HTTPException"],
      [g |-> ReadDoc, auth |-> Hdr(<<"Bearer", " ", "tok">>),
       user |-> User("u1", "u2"), dom |-> "d:1"],
      [g |-> ReadDocD, auth |-> Hdr(<<"tok">>), user |-> User(PyNone, "u1"),
       dom |-> "1"] }

\* _extract_auth_token
ExtractAuthToken(h) ==
    IF ~h.has \/ h.val = <<>>
    THEN [ok |-> FALSE, token |-> <<>>]
    ELSE IF StartsWith(h.val, BearerPrefix)
         THEN [ok |-> TRUE, token |-> DropPrefix(h.val, BearerPrefix)]
         ELSE [ok |-> TRUE, token |-> h.val]

HasValue(v) == v # Absent /\ v # PyNone

\* (variant) user_id preferred over id
PrincipalId_UserIdFirst(u) ==
    IF HasValue(u.user_id) THEN u.user_id
    ELSE IF HasValue(u.id) THEN u.id
    ELSE PyNone

\* user.id if present and not None, else user.user_id, else none
PrincipalId(u) ==
    IF HasValue(u.id) THEN u.id
    ELSE IF HasValue(u.user_id) THEN u.user_id
    ELSE PyNone

\* cache_key = f"{user_id}:{action}:{resource}:{domain}"
CacheKey(uid, action, resource, domain) ==
    uid \o ":" \o action \o ":" \o resource \o ":" \o domain

NoTuple == [uid |-> PyNone, action |-> PyNone, resource |-> PyNone,
            domain |-> PyNone]

TupleKey(t) == CacheKey(t.uid, t.action, t.resource, t.domain)

\* the value the guard stores for a verdict
VerdictEntry(allowed) == {<<"allowed", allowed>>}

\* cached_result.get("authorized", False)
CachedAuthorized(val) == DictGet(val, "authorized", FALSE)

\* `if cache:` before each cache.write, on the deny and on the allow branch
WritesVerdict_AllowOnly(cache, allowed) == cache /\ allowed

WritesVerdict(cache, allowed) == cache

\* results of custos_client.authorize: a response, or an exception class
CustosResults ==
    {"allow", "deny",
     "CustosAuthenticationError", "CustosValidationError",
     "CustosClientError", "CustosServerError", "CustosNotFoundError",
     "CustosError", "ValueError"}

\* the except clauses of the guard, first match wins; "raise" when none
CustosStatus(err) ==
    IF IsInstance(err, "CustosAuthenticationError") THEN "401"
    ELSE IF IsInstance(err, "CustosValidationError") THEN "400"
    ELSE IF IsInstance(err, "CustosClientError")
            \/ IsInstance(err, "CustosServerError") THEN "503"
    ELSE IF IsInstance(err, "CustosError") THEN "500"
    ELSE "raise"

\* pc: position in the dependency; tup: the tuple being decided; cache:
\* the local `cache` is not None; hit: what cache.read returned; live: the
\* store held an unexpired decision for this very tuple at the read;
\* prior: it already held one when the invocation began;
\* fault: a store operation of this invocation failed; calls: calls made
\* to the authorization service; wlog: the cache.write calls made;
\* resolved: the domain resolver was invoked; req: the request served
IdleGuard ==
    [pc |-> "idle", tup |-> NoTuple, cache |-> FALSE, hit |-> Miss,
     live |-> [found |-> FALSE, by |-> "none"], prior |-> FALSE,
     fault |-> FALSE,
     verdict |-> "none", err |-> "none", outcome |-> "none", calls |-> 0,
     wlog |-> <<>>, resolved |-> FALSE, reads |-> 0, req |-> NoGuardRequest]

\* lines 200-210: what a failing domain resolver turns into: an
\* HTTPException is re-raised as it is, anything else becomes a 400
ResolverOutcome_Uncaught(exc) == "raise"

ResolverOutcome(exc) == IF exc = "HTTPException" THEN "raise" ELSE "400"

\* lines 176-222: credential, principal, domain, settings, cache key
GuardBegin(p, req) ==
    /\ guard[p].pc = "idle"
    /\ LET tok == ExtractAuthToken(req.auth)
           uid == PrincipalId(req.user)
           tup == [uid |-> uid, action |-> req.g.action,
                   resource |-> req.g.resource, domain |-> req.dom]
           end(o, e, res) == [IdleGuard EXCEPT !.pc = "done", !.outcome = o,
                                               !.err = e, !.resolved = res,
                                               !.req = req]
           rec == IF ~tok.ok THEN end("401", "none", FALSE)
                  ELSE IF ~req.user.set \/ uid = PyNone
                  THEN end("401", "none", FALSE)
                  ELSE IF req.dom \in {"HTTPException", "Exception"}
                  THEN end(ResolverOutcome(req.dom), req.dom, TRUE)
                  ELSE IF ~settings.url THEN end("500", "none", TRUE)
                  ELSE [IdleGuard EXCEPT
                           !.pc = "read", !.resolved = TRUE, !.tup = tup,
                           !.req = req,
                           !.prior = \E e \in authzStore :
                                        e.tup = tup /\ now < e.exp]
       IN guard' = [guard EXCEPT ![p] = rec]
    /\ UNCHANGED <<now, settings, cacheInit, authzStore>>
    /\ UNCHANGED nonAuthzVars

\* lines 224-235: _get_authorization_cache and the cache lookup
GuardRead(p, up) ==
    /\ guard[p].pc = "read"
    /\ LET r == guard[p]
           cache == settings.enabled
           got == IF cache
                  THEN CacheRead(authzStore, "authorization",
                                 TupleKey(r.tup), up)
                  ELSE Miss
           own == {e \in authzStore : e.tup = r.tup /\ now < e.exp}
           rd == [r EXCEPT
                     !.cache = cache, !.hit = got,
                     !.reads = IF cache THEN 1 ELSE 0,
                     !.fault = cache /\ ~up,
                     !.live = IF own = {} THEN @
                              ELSE [found |-> TRUE,
                                    by |-> (CHOOSE e \in own : TRUE).by]]
       IN /\ cacheInit' = (cacheInit \/ cache)
          /\ guard' = [guard EXCEPT ![p] =
                IF got.found
                THEN [rd EXCEPT !.pc = "done",
                                !.outcome = IF CachedAuthorized(got.val)
                                            THEN "True" ELSE "403"]
                ELSE [rd EXCEPT !.pc = "call"]]
    /\ UNCHANGED <<now, settings, authzStore>>
    /\ UNCHANGED nonAuthzVars

\* (variant) a failed call is treated as a deny and cached
GuardCall_FailClosed(p, res) ==
    /\ guard[p].pc = "call"
    /\ LET r == [guard[p] EXCEPT !.calls = @ + 1]
       IN guard' = [guard EXCEPT ![p] =
             IF res \in {"allow", "deny"}
             THEN [r EXCEPT !.pc = "write", !.verdict = res]
             ELSE [r EXCEPT !.pc = "write", !.err = res, !.verdict = "deny"]]
    /\ UNCHANGED <<now, settings, cacheInit, authzStore>>
    /\ UNCHANGED nonAuthzVars

\* lines 242-254, 275-303: the call to the authorization service
GuardCall(p, res) ==
    /\ guard[p].pc = "call"
    /\ LET r == [guard[p] EXCEPT !.calls = @ + 1]
       IN guard' = [guard EXCEPT ![p] =
             IF res \in {"allow", "deny"}
             THEN [r EXCEPT !.pc = "write", !.verdict = res]
             ELSE [r EXCEPT !.pc = "done", !.err = res,
                            !.outcome = CustosStatus(res)]]
    /\ UNCHANGED <<now, settings, cacheInit, authzStore>>
    /\ UNCHANGED nonAuthzVars

\* lines 254-273, 305: cache the verdict, then deny or allow
GuardWrite(p, up) ==
    /\ guard[p].pc = "write"
    /\ LET r == guard[p]
           allowed == (r.verdict = "allow")
           key == TupleKey(r.tup)
           val == VerdictEntry(allowed)
           fin == [r EXCEPT !.pc = "done",
                            !.outcome = IF allowed THEN "True" ELSE "403"]
       IN IF WritesVerdict(r.cache, allowed)
          THEN /\ authzStore' = CacheWrite(authzStore, "authorization", key,
                                           val, settings.ttl, up, fin)
               /\ guard' = [guard EXCEPT ![p] =
                     [fin EXCEPT !.fault = @ \/ ~up,
                                 !.wlog = Append(@,
                                    [key |-> key, val |-> val,
                                     ttl |-> settings.ttl])]]
          ELSE /\ up
               /\ guard' = [guard EXCEPT ![p] = fin]
               /\ UNCHANGED authzStore
    /\ UNCHANGED <<now, settings, cacheInit>>
    /\ UNCHANGED nonAuthzVars

\* the dependency has returned; the worker takes the next request
GuardReturn(p) ==
    /\ guard[p].pc = "done"
    /\ guard' = [guard EXCEPT ![p] = IdleGuard]
    /\ UNCHANGED <<now, settings, cacheInit, authzStore>>
    /\ UNCHANGED nonAuthzVars

\* one second passes; expired keys disappear from the store
Tick ==
    /\ now < MaxTime
    /\ now' = now + 1
    /\ authzStore' = Purge(authzStore, now + 1)
    /\ UNCHANGED <<settings, cacheInit, guard>>
    /\ UNCHANGED nonAuthzVars

InitAuthz ==
    /\ now = 0
    /\ settings \in [enabled : BOOLEAN, ttl : TtlChoices, url : BOOLEAN]
    /\ cacheInit = FALSE
    /\ authzStore = {}
    /\ guard = [p \in GuardProcs |-> IdleGuard]
    /\ ApiKeyAtRest
    /\ DepAtRest
    /\ MwAtRest
    /\ M2mAtRest
    /\ HandlersAtRest

\* A returned invocation is collected before anything else moves: its
\* record is only the observation of what the call did.
NoneReturned == \A p \in GuardProcs : guard[p].pc # "done"

NextAuthz ==
    \/ \E p \in GuardProcs, req \in GuardRequests :
          NoneReturned /\ GuardBegin(p, req)
    \/ \E p \in GuardProcs, up \in BOOLEAN : NoneReturned /\ GuardRead(p, up)
    \/ \E p \in GuardProcs, res \in CustosResults :
          NoneReturned /\ GuardCall(p, res)
    \/ \E p \in GuardProcs, up \in BOOLEAN :
          NoneReturned /\ GuardWrite(p, up)
    \/ \E p \in GuardProcs : GuardReturn(p)
    \/ NoneReturned /\ Tick

SpecAuthz == InitAuthz /\ [][NextAuthz]_vars

(***************************************************************************)
(* Properties of the authorize guard.                                      *)
(***************************************************************************)
Returned(p) == guard[p].pc = "done"

\* the entry records an allow / a deny in the documented {allowed: bool} form
RecordsAllow(val) == val = VerdictEntry(TRUE)
RecordsDeny(val) == val = VerdictEntry(FALSE)

CustosErrors == CustosResults \ {"allow", "deny"}

\* C1: with the cache enabled and no store failure, an invocation begun
\* after an earlier invocation for the same tuple has stored its decision,
\* and reading while that decision is within its TTL, makes no call to the authorization service (so the two
\* together make at most one) and ends as the earlier one did: True after
\* an allow, 403 after a deny.
C1_SecondCallRepeatsVerdict ==
    \A p \in GuardProcs :
        (Returned(p) /\ guard[p].cache /\ ~guard[p].fault
            /\ guard[p].prior /\ guard[p].live.found)
        => (guard[p].calls = 0 /\ guard[p].outcome = guard[p].live.by)

\* C2: whenever the cache read returns an entry, the invocation makes no
\* call to the authorization service, an entry recording a deny ends in
\* 403 and an entry recording an allow ends in True.
C2_HitDecidesWithoutCall ==
    \A p \in GuardProcs :
        (Returned(p) /\ guard[p].hit.found)
        => /\ guard[p].calls = 0
           /\ RecordsDeny(guard[p].hit.val) => guard[p].outcome = "403"
           /\ RecordsAllow(guard[p].hit.val) => guard[p].outcome = "True"

\* C9: an invocation that missed the cache and obtained a verdict has
\* made exactly one cache.write, under the computed key, of that verdict,
\* with the configured TTL, and then returns True (allow) or raises 403
\* (deny); unless the store failed, the store then holds that entry.
C9_VerdictWrittenOnce ==
    \A p \in GuardProcs :
        LET r == guard[p]
            allowed == (r.verdict = "allow")
        IN (Returned(p) /\ r.cache /\ ~r.hit.found /\ r.verdict # "none")
           => /\ r.wlog = << [key |-> TupleKey(r.tup),
                              val |-> VerdictEntry(allowed),
                              ttl |-> settings.ttl] >>
              /\ r.outcome = IF allowed THEN "True" ELSE "403"
              /\ ~r.fault =>
                    \E e \in authzStore :
                       /\ e.key = GetCacheKey("authorization",
                                              TupleKey(r.tup))
                       /\ e.val = JsonDumps(VerdictEntry(allowed))
                       /\ settings.ttl > 0 => e.exp = now + settings.ttl

C9_DenyWritten ==
    \E p \in GuardProcs :
        /\ Returned(p) /\ guard[p].cache /\ ~guard[p].fault
        /\ guard[p].verdict = "deny" /\ guard[p].outcome = "403"
        /\ Len(guard[p].wlog) = 1
        /\ \E e \in authzStore : e.val = JsonDumps(VerdictEntry(FALSE))

\* C10: an invocation whose call to the authorization service failed with
\* a classified error has made no cache.write at all.
C10_FailureLeavesCacheUnwritten ==
    \A p \in GuardProcs :
        (Returned(p) /\ guard[p].err \in CustosErrors)
        => guard[p].wlog = <<>>

C10_ServerErrorSeen ==
    \E p \in GuardProcs :
        /\ Returned(p) /\ guard[p].cache /\ guard[p].calls = 1
        /\ guard[p].err = "CustosServerError" /\ guard[p].outcome = "503"
        /\ guard[p].wlog = <<>>

(***************************************************************************)
(* APIKeyHandler.validate (auth/api_key_handler.py), run by threads that   *)
(* share the handler's IdentiesClient session.                             *)
(***************************************************************************)
ApiKeys == {"", "k1", "k2"}

\* results of identies_client.introspect(): a response (active with its
\* user, active without user, inactive) or the class of the exception
IntrospectResults ==
    {"active", "active-no-user", "inactive",
     "IdentiesAuthenticationError", "IdentiesValidationError",
     "IdentiesClientError", "IdentiesServerError", "IdentiesNotFoundError",
     "IdentiesError", "TesseraAuthenticationError", "TesseraServerError",
     "ValueError"}

IntrospectErrors == IntrospectResults \ {"active", "active-no-user", "inactive"}

\* introspect_response.user
IntrospectUser(res) == IF res = "active" THEN "u1" ELSE PyNone

\* lines 71-75: reject an empty key, else attach the key to the session
ValAttach(t, key) ==
    /\ validator[t].pc = "idle"
    /\ IF key = ""
       THEN /\ validator' = [validator EXCEPT ![t] =
                  [IdleVal EXCEPT !.pc = "done", !.result = "False"]]
            /\ UNCHANGED hSession
       ELSE /\ hSession' = key
            /\ validator' = [validator EXCEPT ![t] =
                  [IdleVal EXCEPT !.pc = "attached", !.key = key,
                                  !.attached = TRUE]]
    /\ UNCHANGED nonApiKeyVars

\* line 78: the request leaves with the session's headers of that moment
ValSend(t) ==
    /\ validator[t].pc = "attached"
    /\ validator' = [validator EXCEPT ![t].pc = "sent", ![t].sent = <<hSession>>]
    /\ UNCHANGED hSession
    /\ UNCHANGED nonApiKeyVars

\* lines 78-91: the response or exception arrives; the key is deleted from
\* the session on the active branch only
ValReceive(t, res) ==
    /\ validator[t].pc = "sent"
    /\ IF res \in {"active", "active-no-user"}
       THEN /\ hSession' = NoKey
            /\ validator' = [validator EXCEPT ![t].pc = "done",
                                  ![t].result = IntrospectUser(res)]
       ELSE IF res = "inactive"
       THEN /\ validator' = [validator EXCEPT ![t].pc = "done", ![t].result = "False"]
            /\ UNCHANGED hSession
       ELSE /\ validator' = [validator EXCEPT ![t].pc = "done", ![t].result = "raise",
                                  ![t].err = res]
            /\ UNCHANGED hSession
    /\ UNCHANGED nonApiKeyVars

\* validate has returned or raised; the thread serves the next request
ValReturn(t) ==
    /\ validator[t].pc = "done"
    /\ validator' = [validator EXCEPT ![t] = IdleVal]
    /\ UNCHANGED hSession
    /\ UNCHANGED nonApiKeyVars

NoValReturned == \A t \in ValThreads : validator[t].pc # "done"

InitApiKey ==
    /\ ApiKeyAtRest
    /\ DepAtRest
    /\ AuthzAtRest
    /\ MwAtRest
    /\ M2mAtRest
    /\ HandlersAtRest

NextApiKey ==
    \/ \E t \in ValThreads, key \in ApiKeys : NoValReturned /\ ValAttach(t, key)
    \/ \E t \in ValThreads : NoValReturned /\ ValSend(t)
    \/ \E t \in ValThreads, res \in IntrospectResults :
          NoValReturned /\ ValReceive(t, res)
    \/ \E t \in ValThreads : ValReturn(t)

SpecApiKey == InitApiKey /\ [][NextApiKey]_vars

(***************************************************************************)
(* AuthenticationMiddleware (middleware/authentication.py).  dispatch runs *)
(* on the event loop: everything up to `await call_next(request)` is one   *)
(* step, the handler's completion is the next.                             *)
(***************************************************************************)
SkipPaths == { <<"/health">>, <<"/openapi.json">>, <<"/docs">> }

\* any(request.url.path.startswith(p) for p in self.skip_paths)
IsSkipped(path) == \E sp \in SkipPaths : StartsWith(path, sp)

KeyHdr(v) == [has |-> TRUE, val |-> v]
NoKeyHdr == [has |-> FALSE, val |-> ""]

\* requests: path, X-API-Key header, Authorization header
MwInputs ==
    { [path |-> <<"/health", "/live">>, apikey |-> NoKeyHdr, auth |-> NoHeader],
      [path |-> <<"/protected">>, apikey |-> NoKeyHdr, auth |-> NoHeader],
      [path |-> <<"/protected">>, apikey |-> KeyHdr("k1"), auth |-> NoHeader],
      [path |-> <<"/protected">>, apikey |-> KeyHdr(""),
       auth |-> Hdr(<<"Bearer", " ", "jwt">>)],
      [path |-> <<"/protected">>, apikey |-> NoKeyHdr,
       auth |-> Hdr(<<"Bearer", " ", "ak_", "k1">>)],
      [path |-> <<"/protected">>, apikey |-> NoKeyHdr,
       auth |-> Hdr(<<"Bearer", " ", "jwt">>)],
      [path |-> <<"/protected">>, apikey |-> NoKeyHdr,
       auth |-> Hdr(<<"bearer", " ", "jwt">>)],
      [path |-> <<"/protected">>, apikey |-> NoKeyHdr,
       auth |-> Hdr(<<"Bearer", " ">>)] }

\* the except clauses of _validate_api_key, first match wins
IdentiesStatus_All401(err) == "401"

IdentiesStatus(err) ==
    IF IsInstance(err, "IdentiesAuthenticationError") THEN "401"
    ELSE IF IsInstance(err, "IdentiesValidationError") THEN "400"
    ELSE IF IsInstance(err, "IdentiesClientError")
            \/ IsInstance(err, "IdentiesServerError") THEN "503"
    ELSE IF IsInstance(err, "IdentiesError") THEN "500"
    ELSE "500"

\* the "error" text of the JSON body answering a failed key validation
IdentiesBody(err) ==
    IF err = "inactive" THEN "Invalid or inactive API key"
    ELSE IF IsInstance(err, "IdentiesAuthenticationError")
    THEN "Invalid API key"
    ELSE IF IsInstance(err, "IdentiesValidationError")
    THEN "API key validation error"
    ELSE IF IsInstance(err, "IdentiesClientError")
            \/ IsInstance(err, "IdentiesServerError")
    THEN "Authentication service temporarily unavailable"
    ELSE IF IsInstance(err, "IdentiesError")
    THEN "Internal authentication error"
    ELSE "Internal server error"

\* (variant) any non-empty Authorization header counts as a bearer token
HasBearer_AnyScheme(auth) == auth.has /\ auth.val # <<>>

\* line 143: authorization and authorization.startswith("Bearer ")
HasBearer(auth) ==
    auth.has /\ auth.val # <<>> /\ StartsWith(auth.val, BearerPrefix)

\* (variant) every verification failure is answered 401
JwtFailure_Always401(jres) == [status |-> "401", body |-> "Invalid token"]

\* lines 156-166: the except HTTPException clause answers 401 and 403 and
\* lets every other status fall through to call_next
JwtFailure(jres) ==
    IF jres = "HTTP401" THEN [status |-> "401", body |-> "Invalid token"]
    ELSE IF jres = "HTTP403" THEN [status |-> "403", body |-> "Forbidden"]
    ELSE [status |-> "next", body |-> "none"]

\* results of verify_token_dependency: the principal it stores (a user
\* record or the pending-onboarding marker), or the exception it raises.
\* The user lookup is host code and may raise anything.
JwtResults ==
    {"user", "onboarding", "HTTP401", "HTTP403", "HTTP500", "RuntimeError"}

\* VerifyToken.verify rejects an empty token before any decoding
JwtResultsFor(token) ==
    IF token = <<>> THEN {"HTTP401", "RuntimeError"} ELSE JwtResults

\* lines 131-168 up to the first `await call_next(request)`; with an
\* X-API-Key header, _validate_api_key attaches the key (lines 74-78)
MwDispatch(r, req, jres) ==
    /\ mw[r].pc = "idle"
    /\ LET base == [IdleMw EXCEPT !.req = req]
           reject(rec, st, b) == [rec EXCEPT !.pc = "done", !.status = st,
                                             !.body = b]
           next(rec) == [rec EXCEPT !.pc = "handler", !.handler = 1]
           token == DropPrefix(req.auth.val, BearerPrefix)
       IN IF IsSkipped(req.path)
          THEN /\ mw' = [mw EXCEPT ![r] = next([base EXCEPT !.via = "skip"])]
               /\ UNCHANGED mSession
          ELSE IF req.apikey.has /\ req.apikey.val # ""
          THEN /\ mSession' = req.apikey.val
               /\ mw' = [mw EXCEPT ![r] =
                     [base EXCEPT !.via = "apikey", !.pc = "introspect"]]
          ELSE IF ~HasBearer(req.auth)
          THEN /\ mw' = [mw EXCEPT ![r] =
                     reject([base EXCEPT !.via = "none"], "401",
                            "Missing or invalid token")]
               /\ UNCHANGED mSession
          ELSE LET rec == [base EXCEPT !.via = "jwt", !.res = jres,
                                       !.jwt = 1]
               IN /\ jres \in JwtResultsFor(token)
                  /\ mw' = [mw EXCEPT ![r] =
                        IF jres = "user" THEN next([rec EXCEPT !.user = "u1"])
                        ELSE IF jres = "onboarding"
                        THEN next([rec EXCEPT !.user = "needs-onboarding"])
                        ELSE IF jres \in {"HTTP401", "HTTP403", "HTTP500"}
                        THEN IF JwtFailure(jres).status = "next"
                             THEN next(rec)
                             ELSE reject(rec, JwtFailure(jres).status,
                                         JwtFailure(jres).body)
                        ELSE reject(rec, "raise", "none")]
                  /\ UNCHANGED mSession
    /\ UNCHANGED nonMwVars

\* lines 80-129: the synchronous introspect call carries the session's
\* headers; an active key sets the principal and goes on to the handler,
\* anything else is answered with an error status; the key is deleted
\* from the session on every path
MwIntrospect(r, ires) ==
    /\ mw[r].pc = "introspect"
    /\ LET rec == [mw[r] EXCEPT !.res = ires, !.sent = <<mSession>>]
       IN mw' = [mw EXCEPT ![r] =
             IF ires \in {"active", "active-no-user"}
             THEN [rec EXCEPT !.pc = "handler", !.handler = 1,
                              !.user = IntrospectUser(ires)]
             ELSE IF ires = "inactive"
             THEN [rec EXCEPT !.pc = "done", !.status = "401",
                              !.body = IdentiesBody(ires)]
             ELSE [rec EXCEPT !.pc = "done", !.status = IdentiesStatus(ires),
                              !.body = IdentiesBody(ires)]]
    /\ mSession' = NoKey
    /\ UNCHANGED nonMwVars

\* call_next returns the handler's response or re-raises its exception;
\* inside _validate_api_key that is caught (500) and the finally clause
\* deletes any X-API-Key from the session
MwHandlerDone(r, hres) ==
    /\ mw[r].pc = "handler"
    /\ mw' = [mw EXCEPT ![r].pc = "done",
                        ![r].status = IF hres = "ok" THEN "next"
                                      ELSE IF mw[r].via = "apikey" THEN "500"
                                      ELSE "raise",
                        ![r].body = IF hres # "ok" /\ mw[r].via = "apikey"
                                    THEN "Internal server error"
                                    ELSE "none"]
    /\ mSession' = IF mw[r].via = "apikey" THEN NoKey ELSE mSession
    /\ UNCHANGED nonMwVars

\* the response has been sent
MwReturn(r) ==
    /\ mw[r].pc = "done"
    /\ mw' = [mw EXCEPT ![r] = IdleMw]
    /\ UNCHANGED mSession
    /\ UNCHANGED nonMwVars

NoMwReturned == \A r \in MwRequests : mw[r].pc # "done"

\* introspect() is a blocking call made on the event loop: no other
\* request is served until it has returned
LoopFree == \A r \in MwRequests : mw[r].pc # "introspect"

InitMw ==
    /\ MwAtRest
    /\ AuthzAtRest
    /\ ApiKeyAtRest
    /\ DepAtRest
    /\ M2mAtRest
    /\ HandlersAtRest

NextMw ==
    \/ \E r \in MwRequests, req \in MwInputs, jres \in JwtResults :
          NoMwReturned /\ LoopFree /\ MwDispatch(r, req, jres)
    \/ \E r \in MwRequests, ires \in IntrospectResults : MwIntrospect(r, ires)
    \/ \E r \in MwRequests, hres \in {"ok", "raise"} :
          NoMwReturned /\ LoopFree /\ MwHandlerDone(r, hres)
    \/ \E r \in MwRequests : MwReturn(r)

SpecMw == InitMw /\ [][NextMw]_vars

(***************************************************************************)
(* M2MTokenClient (utils/m2m_token.py).  get_token runs its cache lookup   *)
(* on the event loop and _request_token in a worker thread.                *)
(***************************************************************************)
\* x or default
OrElse(x, default) == IF x = "" \/ x = PyNone THEN default ELSE x

\* _generate_cache_key
GenerateCacheKey(client_id, audience) ==
    "m2m_token" \o ":" \o client_id \o ":" \o audience

\* calls: get_token(...) or get_token_sync(...) with their arguments
TokenCalls ==
    { [sync |-> FALSE, client_id |-> "", client_secret |-> "",
       audience |-> "", timeout |-> 30, force |-> FALSE],
      [sync |-> FALSE, client_id |-> "", client_secret |-> "",
       audience |-> "", timeout |-> 5, force |-> TRUE],
      [sync |-> FALSE, client_id |-> "c2", client_secret |-> "s2",
       audience |-> "aud2", timeout |-> 5, force |-> FALSE],
      [sync |-> TRUE, client_id |-> "", client_secret |-> "",
       audience |-> "", timeout |-> 5, force |-> FALSE] }

Token(name, expires) ==
    [access_token |-> name, token_type |-> "Bearer", expires_in |-> expires]

\* what the token endpoint answers: a complete token response, a body
\* lacking a required field, or the class of the exception raised
EndpointResults ==
    { [kind |-> "ok", token |-> Token("fresh", 120)],
      [kind |-> "ok", token |-> Token("brief", 30)],
      [kind |-> "incomplete", token |-> NoToken],
      [kind |-> "TesseraServerError", token |-> NoToken] }

\* (variant) without the floor of one second
TokenTtl_NoFloor(expires_in, buffer) == expires_in - buffer

\* ttl = max(token_response.expires_in - self.cache_buffer_seconds, 1)
TokenTtl(expires_in, buffer) ==
    IF expires_in - buffer > 1 THEN expires_in - buffer ELSE 1

NoWriter == [tup |-> [uid |-> PyNone, action |-> PyNone,
                      resource |-> PyNone, domain |-> PyNone],
             outcome |-> "none"]

\* a stored text that is not the JSON of a token response
NotJson == <<"text", NoToken>>

\* (variant) no cached text is accepted
IsTokenJson_Never(doc) == FALSE

\* json.loads(cached_data) and M2MTokenResponse(**token_data) succeed
IsTokenJson(doc) == doc[1] = "json"

\* (variant) without the try / except around the lookup
GetCachedToken_Unguarded(key, up) ==
    LET got == CacheRead(tokenStore, "m2m_token", key, up)
    IN IF ~up
       THEN [found |-> FALSE, token |-> NoToken, err |-> "ConnectionError"]
       ELSE IF got.found /\ ~IsTokenJson(got.val)
       THEN [found |-> FALSE, token |-> NoToken, err |-> "JSONDecodeError"]
       ELSE IF got.found
       THEN [found |-> TRUE, token |-> JsonLoads(got.val), err |-> "none"]
       ELSE [found |-> FALSE, token |-> NoToken, err |-> "none"]

\* _get_cached_token: the token decoded from the cache, if any; a store
\* error and a value that does not decode both count as a miss
GetCachedToken(key, up) ==
    LET got == CacheRead(tokenStore, "m2m_token", key, up)
    IN IF got.found /\ IsTokenJson(got.val)
       THEN [found |-> TRUE, token |-> JsonLoads(got.val), err |-> "none"]
       ELSE [found |-> FALSE, token |-> NoToken, err |-> "none"]

\* (variant) force_refresh is ignored
LooksInCache_Always(call) == ~call.sync

\* `if not force_refresh:` in get_token; get_token_sync never looks
LooksInCache(call) == ~call.sync /\ ~call.force

\* get_token lines 194-205 (cache lookup unless force_refresh);
\* get_token_sync goes straight to _request_token
TokenBegin(a, call, up) ==
    /\ m2m[a].pc = "idle"
    /\ LET key == GenerateCacheKey(OrElse(call.client_id, m2mCfg.client_id),
                                   OrElse(call.audience, m2mCfg.audience))
           looks == LooksInCache(call)
           got == IF looks THEN GetCachedToken(key, up)
                  ELSE [found |-> FALSE, token |-> NoToken, err |-> "none"]
           rec == [IdleM2m EXCEPT !.call = call, !.key = key,
                                  !.fault = looks /\ ~up,
                                  !.reads = IF looks THEN 1 ELSE 0]
       IN m2m' = [m2m EXCEPT ![a] =
             IF got.err # "none"
             THEN [rec EXCEPT !.pc = "done", !.result = got.err]
             ELSE IF got.found
             THEN [rec EXCEPT !.pc = "done", !.hit = TRUE,
                              !.result = "token", !.token = got.token]
             ELSE [rec EXCEPT !.pc = "thread"]]
    /\ (call.sync \/ call.force) => up
    /\ UNCHANGED <<m2mCfg, tokenStore, clientTimeout, now>>
    /\ UNCHANGED nonM2mVars

\* _request_token lines 145-151: credentials, then the timeout override
TokenPrepare(a) ==
    /\ m2m[a].pc = "thread"
    /\ LET call == m2m[a].call
           cid == OrElse(call.client_id, m2mCfg.client_id)
           sec == OrElse(call.client_secret, m2mCfg.client_secret)
       IN IF cid = "" \/ sec = ""
          THEN /\ m2m' = [m2m EXCEPT ![a].pc = "done",
                                     ![a].result = "ValueError"]
               /\ UNCHANGED clientTimeout
          ELSE /\ m2m' = [m2m EXCEPT ![a].pc = "send",
                                     ![a].orig = clientTimeout]
               /\ clientTimeout' = call.timeout
    /\ UNCHANGED <<m2mCfg, tokenStore, now>>
    /\ UNCHANGED nonM2mVars

\* lines 153-161: the POST to /oauth/token with timeout=self.timeout, and
\* the validation of the response
TokenSend(a, res) ==
    /\ m2m[a].pc = "send"
    /\ m2m' = [m2m EXCEPT
          ![a].pc = "restore",
          ![a].sentWith = clientTimeout,
          ![a].requests = @ + 1,
          ![a].result = IF res.kind = "ok" THEN "token"
                        ELSE IF res.kind = "incomplete" THEN "ValueError"
                        ELSE res.kind,
          ![a].token = res.token]
    /\ UNCHANGED <<m2mCfg, tokenStore, clientTimeout, now>>
    /\ UNCHANGED nonM2mVars

\* (variant) the timeout is put back only after a successful request
TokenRestore_OnSuccess(a) ==
    /\ m2m[a].pc = "restore"
    /\ clientTimeout' = IF m2m[a].result = "token" THEN m2m[a].orig
                        ELSE clientTimeout
    /\ m2m' = [m2m EXCEPT ![a].pc = "done"]
    /\ UNCHANGED <<m2mCfg, tokenStore, now>>
    /\ UNCHANGED nonM2mVars

\* lines 162-163: finally: self.timeout = original_timeout
TokenRestore(a) ==
    /\ m2m[a].pc = "restore"
    /\ clientTimeout' = m2m[a].orig
    /\ m2m' = [m2m EXCEPT ![a].pc = "done"]
    /\ UNCHANGED <<m2mCfg, tokenStore, now>>
    /\ UNCHANGED nonM2mVars

\* the call has returned or raised
TokenReturn(a) ==
    /\ m2m[a].pc = "done"
    /\ m2m' = [m2m EXCEPT ![a] = IdleM2m]
    /\ UNCHANGED <<m2mCfg, tokenStore, clientTimeout, now>>
    /\ UNCHANGED nonM2mVars

\* _cache_token(token_response, cache_key), called on the client
CacheToken(token, key, up) ==
    /\ tokenStore' = CacheWrite(tokenStore, "m2m_token", key,
                                JsonDumps(token),
                                TokenTtl(token.expires_in, m2mCfg.buffer),
                                up, NoWriter)
    /\ UNCHANGED <<m2mCfg, clientTimeout, m2m, now>>
    /\ UNCHANGED nonM2mVars

\* cache_service.write(cache_key, value) by another user of the shared
\* store: the key then holds a text that is no token response
WriteOther(key, up) ==
    /\ tokenStore' = CacheWrite(tokenStore, "m2m_token", key, NotJson, 0,
                                up, NoWriter)
    /\ tokenStore' # tokenStore
    /\ UNCHANGED <<m2mCfg, clientTimeout, m2m, now>>
    /\ UNCHANGED nonM2mVars

\* clear_cache(client_id, audience)
ClearCache(client_id, audience) ==
    /\ LET key == GenerateCacheKey(OrElse(client_id, m2mCfg.client_id),
                                   OrElse(audience, m2mCfg.audience))
       IN tokenStore' = {e \in tokenStore :
                            e.key # GetCacheKey("m2m_token", key)}
    /\ tokenStore' # tokenStore
    /\ UNCHANGED <<m2mCfg, clientTimeout, m2m, now>>
    /\ UNCHANGED nonM2mVars

\* one second passes; expired tokens disappear from the store
TickTokens ==
    /\ now < MaxTime
    /\ now' = now + 1
    /\ tokenStore' = Purge(tokenStore, now + 1)
    /\ UNCHANGED <<m2mCfg, clientTimeout, m2m>>
    /\ UNCHANGED nonM2mVars

NoTokenReturned == \A a \in TokenCallers : m2m[a].pc # "done"

CachedTokens == { Token("cached", 120), Token("hour", 60), Token("brief", 30) }

TokenKeys == { GenerateCacheKey("svc", "api") }

InitM2m ==
    /\ m2mCfg \in { [client_id |-> "svc", client_secret |-> "sec",
                      audience |-> "api", buffer |-> 60, timeout |-> 30],
                    [client_id |-> "", client_secret |-> "",
                      audience |-> "api", buffer |-> 10, timeout |-> 30] }
    /\ tokenStore = {}
    /\ clientTimeout = m2mCfg.timeout
    /\ m2m = [a \in TokenCallers |-> IdleM2m]
    /\ now = 0
    /\ settings = [enabled |-> FALSE, ttl |-> 300, url |-> TRUE]
    /\ cacheInit = FALSE
    /\ authzStore = {}
    /\ guard = [p \in GuardProcs |-> IdleGuard]
    /\ ApiKeyAtRest
    /\ DepAtRest
    /\ MwAtRest
    /\ HandlersAtRest

NextM2m ==
    \/ \E a \in TokenCallers, call \in TokenCalls, up \in BOOLEAN :
          NoTokenReturned /\ TokenBegin(a, call, up)
    \/ \E a \in TokenCallers : NoTokenReturned /\ TokenPrepare(a)
    \/ \E a \in TokenCallers, res \in EndpointResults :
          NoTokenReturned /\ TokenSend(a, res)
    \/ \E a \in TokenCallers : NoTokenReturned /\ TokenRestore(a)
    \/ \E a \in TokenCallers : TokenReturn(a)
    \/ \E token \in CachedTokens, key \in TokenKeys, up \in BOOLEAN :
          NoTokenReturned /\ CacheToken(token, key, up)
    \/ \E key \in TokenKeys, up \in BOOLEAN :
          NoTokenReturned /\ WriteOther(key, up)
    \/ \E call \in TokenCalls :
          NoTokenReturned /\ ClearCache(call.client_id, call.audience)
    \/ NoTokenReturned /\ TickTokens

SpecM2m == InitM2m /\ [][NextM2m]_vars

(***************************************************************************)
(* TokenHandler (auth/token_handler.py): construction from the configured  *)
(* provider descriptors, and verify over self.providers.                   *)
(***************************************************************************)
Descriptor(id, jwks_url) == [id |-> id, jwks_url |-> jwks_url]

\* configured descriptor lists; a jwks_url of "" is a descriptor without one
ProviderLists ==
    { <<>>,
      <<Descriptor("A", "")>>,
      <<Descriptor("A", ""), Descriptor("B", "")>>,
      <<Descriptor("A", "jwksA")>>,
      <<Descriptor("A", "jwksA"), Descriptor("B", "jwksB"),
        Descriptor("C", "jwksC")>>,
      <<Descriptor("A", ""), Descriptor("B", "jwksB"),
        Descriptor("C", "jwksC")>>,
      <<Descriptor("A", "jwksA"), Descriptor("B", ""),
        Descriptor("C", "jwksC")>> }

\* settings: AUTH_PROVIDERS_JSON holding a list, holding something that is
\* not a list, or unset with the OIDC settings giving the JWKS urls
AuthConfigs ==
    { [kind |-> "json", providers |-> ps, urls |-> <<>>] :
          ps \in ProviderLists }
    \cup { [kind |-> "notalist", providers |-> <<>>, urls |-> <<>>] }
    \cup { [kind |-> "oidc", providers |-> <<>>, urls |-> us] :
             us \in { <<>>, <<"jwksO">>, <<"jwksO", "jwksI">> } }

\* Settings.get_auth_providers
GetAuthProviders(cfg) ==
    IF cfg.kind = "json" THEN [ok |-> TRUE, providers |-> cfg.providers]
    ELSE IF cfg.kind = "notalist" THEN [ok |-> FALSE, providers |-> <<>>]
    ELSE IF cfg.urls = <<>> THEN [ok |-> TRUE, providers |-> <<>>]
    ELSE [ok |-> TRUE,
          providers |-> <<Descriptor("oidc", Head(cfg.urls))>>]

\* the loop of __init__: descriptors without a jwks_url are skipped
RECURSIVE WithKeySource(_)
WithKeySource(ps) ==
    IF ps = <<>> THEN <<>>
    ELSE IF Head(ps).jwks_url = "" THEN WithKeySource(Tail(ps))
    ELSE <<Head(ps)>> \o WithKeySource(Tail(ps))

\* TokenHandler.__init__
TokenHandlerInit ==
    /\ handler.state = "none"
    /\ LET got == GetAuthProviders(authCfg)
       IN handler' =
            IF ~got.ok \/ got.providers = <<>>
            THEN [state |-> "failed", providers |-> <<>>,
                  err |-> "ValueError"]
            ELSE [state |-> "built",
                  providers |-> WithKeySource(got.providers),
                  err |-> "none"]
    /\ UNCHANGED <<authCfg, verifier>>
    /\ UNCHANGED nonTokenVars

\* HTTP status of the exception classes of base/exceptions.py
ExceptionStatus(cls) ==
    CASE cls = "UnauthorizedException" -> "403"
      [] cls = "UnauthenticatedException" -> "401"
      [] OTHER -> "raise"

Tokens == {PyNone, "", "jwt"}

\* (variant) the failure never carries a provider's error
NextProvider_Generic(v) ==
    IF v.i < Len(handler.providers)
    THEN [v EXCEPT !.pc = "key", !.i = v.i + 1]
    ELSE [v EXCEPT !.pc = "done", !.result = "UnauthorizedException",
                   !.detail = "Unable to verify token"]

\* the loop moves to provider i + 1, or ends after the last one
NextProvider(v) ==
    IF v.i < Len(handler.providers)
    THEN [v EXCEPT !.pc = "key", !.i = v.i + 1]
    ELSE [v EXCEPT !.pc = "done", !.result = "UnauthorizedException",
                   !.detail = IF v.last.err # "none" THEN v.last.err
                              ELSE "Unable to verify token"]

\* verify, lines 33-38: the empty-token check and the start of the loop
VerifyBegin(token) ==
    /\ handler.state = "built"
    /\ verifier.pc = "idle"
    /\ verifier' =
          IF token = PyNone \/ token = ""
          THEN [IdleVerifier EXCEPT !.pc = "done", !.token = token,
                   !.result = "UnauthorizedException",
                   !.detail = "Missing or invalid token"]
          ELSE NextProvider([IdleVerifier EXCEPT !.token = token])
    /\ UNCHANGED <<authCfg, handler>>
    /\ UNCHANGED nonTokenVars

KeyResults == {"key", "PyJWKClientError", "DecodeError"}

\* lines 41-51: provider["jwks_client"].get_signing_key_from_jwt(token)
VerifyKey(res) ==
    /\ verifier.pc = "key"
    /\ LET id == handler.providers[verifier.i].id
           v == [verifier EXCEPT
                    !.tried = Append(@, [id |-> id, key |-> res,
                                         decode |-> "none"])]
       IN verifier' =
            IF res = "key" THEN [v EXCEPT !.pc = "decode"]
            ELSE NextProvider([v EXCEPT !.last = [id |-> id, err |-> res]])
    /\ UNCHANGED <<authCfg, handler>>
    /\ UNCHANGED nonTokenVars

DecodeResults == {"payload", "InvalidTokenError"}

\* (variant) the loop goes on after a successful decode
VerifyDecode_KeepsGoing(res) ==
    /\ verifier.pc = "decode"
    /\ LET id == handler.providers[verifier.i].id
           n == Len(verifier.tried)
           v == [verifier EXCEPT !.tried[n].decode = res]
       IN verifier' =
            IF res = "payload"
            THEN IF v.i < Len(handler.providers)
                 THEN [v EXCEPT !.pc = "key", !.i = v.i + 1,
                                !.payload = id]
                 ELSE [v EXCEPT !.pc = "done", !.result = "payload",
                                !.payload = id]
            ELSE NextProvider([v EXCEPT !.last = [id |-> id, err |-> res]])
    /\ UNCHANGED <<authCfg, handler>>
    /\ UNCHANGED nonTokenVars

\* lines 53-65: jwt.decode with the provider's issuer and audience
VerifyDecode(res) ==
    /\ verifier.pc = "decode"
    /\ LET id == handler.providers[verifier.i].id
           n == Len(verifier.tried)
           v == [verifier EXCEPT !.tried[n].decode = res]
       IN verifier' =
            IF res = "payload"
            THEN [v EXCEPT !.pc = "done", !.result = "payload",
                           !.payload = id]
            ELSE NextProvider([v EXCEPT !.last = [id |-> id, err |-> res]])
    /\ UNCHANGED <<authCfg, handler>>
    /\ UNCHANGED nonTokenVars

\* verify has returned or raised
VerifyReturn ==
    /\ verifier.pc = "done"
    /\ verifier' = IdleVerifier
    /\ UNCHANGED <<authCfg, handler>>
    /\ UNCHANGED nonTokenVars

InitToken ==
    /\ authCfg \in AuthConfigs
    /\ handler = NoHandler
    /\ verifier = IdleVerifier
    /\ ExtractAtRest
    /\ AuthzAtRest
    /\ ApiKeyAtRest
    /\ DepAtRest
    /\ MwAtRest
    /\ M2mAtRest

NextToken ==
    \/ TokenHandlerInit
    \/ \E token \in Tokens : VerifyBegin(token)
    \/ \E res \in KeyResults : VerifyKey(res)
    \/ \E res \in DecodeResults : VerifyDecode(res)
    \/ VerifyReturn

SpecToken == InitToken /\ [][NextToken]_vars

(***************************************************************************)
(* The credential extractors of TokenHandler and APIKeyHandler.  A header  *)
(* value is a Python value: a str (a sequence of lexical chunks, the       *)
(* whitespace chunks being " " and "\t"), an int, or None.                 *)
(***************************************************************************)
StrVal(chunks) == [t |-> "str", s |-> chunks, n |-> 0]
IntVal(n) == [t |-> "int", s |-> <<>>, n |-> n]
NoneVal == [t |-> "none", s |-> <<>>, n |-> 0]

\* bool(v)
Truthy(v) == (v.t = "str" /\ v.s # <<>>) \/ (v.t = "int" /\ v.n # 0)

\* isinstance(v, str)
IsStr(v) == v.t = "str"

IsSpace(c) == c \in {" ", "\t"}

\* str.strip()
RECURSIVE LStrip(_)
LStrip(q) == IF q # <<>> /\ IsSpace(Head(q)) THEN LStrip(Tail(q)) ELSE q

RECURSIVE RStrip(_)
RStrip(q) ==
    IF q # <<>> /\ IsSpace(q[Len(q)])
    THEN RStrip(SubSeq(q, 1, Len(q) - 1))
    ELSE q

Strip(q) == RStrip(LStrip(q))

\* str.lower()
LowerChunk(c) ==
    CASE c = "Bearer" -> "bearer"
      [] c = "BEARER" -> "bearer"
      [] OTHER -> c

Lower(q) == [k \in 1..Len(q) |-> LowerChunk(q[k])]

\* str.split(" ", 1)
SplitOnce(q) ==
    IF \E k \in 1..Len(q) : q[k] = " "
    THEN LET k == CHOOSE j \in 1..Len(q) :
                     q[j] = " " /\ \A m \in 1..(j - 1) : q[m] # " "
         IN <<SubSeq(q, 1, k - 1), SubSeq(q, k + 1, Len(q))>>
    ELSE <<q>>

HasKeyIn(headers, k) == \E pr \in headers.items : pr[1] = k

\* the lookup under the lower-case and then the canonical header name:
\* with .get the second name is tried when the first gives a falsy value,
\* without it only when the first name is not in the container
Lookup(headers, lower, canonical, default) ==
    IF headers.get
    THEN LET first == DictGet(headers.items, lower, NoneVal)
         IN IF ~Truthy(first)
            THEN DictGet(headers.items, canonical, NoneVal)
            ELSE first
    ELSE IF HasKeyIn(headers, lower)
         THEN DictGet(headers.items, lower, NoneVal)
         ELSE IF HasKeyIn(headers, canonical)
         THEN DictGet(headers.items, canonical, NoneVal)
         ELSE default

\* (variant) the isinstance test is left out, so str methods are called
\* on whatever the header holds
BearerCheck_NoTypeCheck(v) ==
    IF ~Truthy(v) THEN "absent"
    ELSE IF ~IsStr(v) THEN "AttributeError"
    ELSE IF ~StartsWith(Lower(Strip(v.s)), <<"bearer", " ">>) THEN "absent"
    ELSE "ok"

\* not authorization or not isinstance(authorization, str) or
\* not authorization.strip().lower().startswith("bearer ")
BearerCheck(v) ==
    IF ~Truthy(v) THEN "absent"
    ELSE IF ~IsStr(v) THEN "absent"
    ELSE IF ~StartsWith(Lower(Strip(v.s)), <<"bearer", " ">>) THEN "absent"
    ELSE "ok"

\* not api_key or not isinstance(api_key, str) or not api_key.strip()
KeyCheck(v) ==
    IF ~Truthy(v) THEN "absent"
    ELSE IF ~IsStr(v) THEN "absent"
    ELSE IF Strip(v.s) = <<>> THEN "absent"
    ELSE "ok"

\* TokenHandler.has_bearer_token_header
HasBearerTokenHeader(headers) ==
    BearerCheck(Lookup(headers, "authorization", "Authorization", NoneVal))

\* TokenHandler.get_bearer_token
GetBearerToken(headers) ==
    LET v == Lookup(headers, "authorization", "Authorization", StrVal(<<>>))
        chk == BearerCheck(v)
        parts == SplitOnce(Strip(v.s))
    IN IF chk # "ok" THEN [res |-> chk, val |-> <<>>]
       ELSE IF Len(parts) = 2 /\ Lower(parts[1]) = <<"bearer">>
       THEN [res |-> "ok", val |-> Strip(parts[2])]
       ELSE [res |-> "absent", val |-> <<>>]

\* APIKeyHandler.has_api_key_header
HasApiKeyHeader(headers) ==
    KeyCheck(Lookup(headers, "x-api-key", "X-API-Key", NoneVal))

\* APIKeyHandler.get_api_key
GetApiKey(headers) ==
    LET v == Lookup(headers, "x-api-key", "X-API-Key", StrVal(<<>>))
        chk == KeyCheck(v)
    IN IF chk # "ok" THEN [res |-> chk, val |-> <<>>]
       ELSE [res |-> "ok", val |-> Strip(v.s)]

Extractors ==
    {"has_bearer_token_header", "get_bearer_token",
     "has_api_key_header", "get_api_key"}

\* one call of an extractor on the header collection
CallExtractor(fn) ==
    /\ fn \notin extract.called
    /\ LET h == extract.headers
           res == CASE fn = "has_bearer_token_header"
                         -> HasBearerTokenHeader(h)
                    [] fn = "get_bearer_token" -> GetBearerToken(h).res
                    [] fn = "has_api_key_header" -> HasApiKeyHeader(h)
                    [] OTHER -> GetApiKey(h).res
           e == [extract EXCEPT
                    !.called = @ \cup {fn},
                    !.raised = IF res \in {"ok", "absent"} THEN @
                               ELSE @ \cup {fn}]
       IN extract' =
            CASE fn = "has_bearer_token_header"
                   -> [e EXCEPT !.hasBearer = (res = "ok")]
              [] fn = "get_bearer_token"
                   -> [e EXCEPT !.bearer = GetBearerToken(h).val]
              [] fn = "has_api_key_header"
                   -> [e EXCEPT !.hasKey = (res = "ok")]
              [] OTHER -> [e EXCEPT !.key = GetApiKey(h).val]
    /\ UNCHANGED nonExtractVars

\* header values: absent, or one of these Python values
HeaderValues ==
    { NoneVal, IntVal(0), IntVal(123), StrVal(<<>>), StrVal(<<" ">>),
      StrVal(<<"Bearer", " ", "tok">>),
      StrVal(<<" ", "bearer", " ", "\t", "tok", " ">>),
      StrVal(<<"BEARER", " ">>),
      StrVal(<<"Bearer", "\t", "tok">>),
      StrVal(<<" ", "k1", "\t">>) }

\* marks a name that the collection does not hold
NotHeld == [t |-> "absent", s |-> <<>>, n |-> 0]

\* the collection holds the value (if any) under the lower-case names and
\* the other value (if any) under the canonical names
HeaderItems(lower, canonical) ==
    (IF lower = NotHeld THEN {}
     ELSE {<<"authorization", lower>>, <<"x-api-key", lower>>})
    \cup
    (IF canonical = NotHeld THEN {}
     ELSE {<<"Authorization", canonical>>, <<"X-API-Key", canonical>>})

HeaderCollections ==
    { [get |-> g, items |-> HeaderItems(lo, ca)] :
        g \in BOOLEAN,
        lo \in HeaderValues \cup {NotHeld},
        ca \in HeaderValues \cup {NotHeld} }

InitExtract ==
    /\ extract \in { [IdleExtract EXCEPT !.headers = h] :
                        h \in HeaderCollections }
    /\ TokenAtRest
    /\ AuthzAtRest
    /\ ApiKeyAtRest
    /\ DepAtRest
    /\ MwAtRest
    /\ M2mAtRest

NextExtract == \E fn \in Extractors : CallExtractor(fn)

SpecExtract == InitExtract /\ [][NextExtract]_vars

(***************************************************************************)
(* Properties of API-key validation and of the middleware.                 *)
(***************************************************************************)
ValQuiet == \A t \in ValThreads : validator[t].pc \in {"idle", "done"}
MwQuiet == \A r \in MwRequests : mw[r].pc \in {"idle", "handler", "done"}

\* C3: once a validation attempt that attached a key has completed
\* (active, inactive or exception) and no other attempt is in progress,
\* the shared session holds no X-API-Key header -- for
\* APIKeyHandler.validate and for the middleware's _validate_api_key.
C3_KeyGoneAfterValidation ==
    /\ (ValQuiet /\ \E t \in ValThreads :
            validator[t].pc = "done" /\ validator[t].attached)
       => hSession = NoKey
    /\ (MwQuiet /\ \E r \in MwRequests :
            mw[r].pc \in {"handler", "done"} /\ mw[r].via = "apikey")
       => mSession = NoKey

\* C4: every introspection request sent by a validation carries exactly
\* the key of that validation, under every interleaving.
C4_IntrospectionCarriesOwnKey ==
    /\ \A t \in ValThreads :
          validator[t].sent # <<>> => validator[t].sent = <<validator[t].key>>
    /\ \A r \in MwRequests :
          mw[r].sent # <<>> => mw[r].sent = <<mw[r].req.apikey.val>>

NonSkipped(r) == mw[r].pc \in {"handler", "done"} /\ ~IsSkipped(mw[r].req.path)

BearerToken(req) ==
    IF req.auth.has /\ StartsWith(req.auth.val, BearerPrefix)
    THEN DropPrefix(req.auth.val, BearerPrefix)
    ELSE <<>>

ServicePrefix == <<"ak_">>

\* C6: a non-skipped request whose bearer token begins with `ak_` is
\* validated by API-key introspection of that token, and JWT verification
\* is never invoked for it.
C6_ServiceTokenUsesIntrospection ==
    \A r \in MwRequests :
        (NonSkipped(r) /\ mw[r].via # "apikey"
            /\ StartsWith(BearerToken(mw[r].req), ServicePrefix))
        => (mw[r].jwt = 0 /\ mw[r].sent = <<Join(BearerToken(mw[r].req))>>)

\* C7: a non-skipped request ends with the handler invoked under a
\* non-null principal, or with a 401, or with a 403; the handler is never
\* invoked while the principal slot is unset or null.
C7_ThreeOutcomes ==
    \A r \in MwRequests :
        NonSkipped(r)
        => /\ mw[r].handler = 1 => HasValue(mw[r].user)
           /\ (mw[r].pc = "done" /\ mw[r].handler = 0)
                 => mw[r].status \in {"401", "403"}

ApiKeyChecked(r) == mw[r].via = "apikey" /\ mw[r].res # "none"

\* C8 (as claimed): with an API key present, every unsuccessful validation
\* is rejected with 401, and only an active key continues to the handler.
C8_EveryFailureIs401 ==
    \A r \in MwRequests :
        (NonSkipped(r) /\ ApiKeyChecked(r))
        => IF mw[r].res \in {"active", "active-no-user"}
           THEN mw[r].handler = 1
           ELSE mw[r].handler = 0 /\ mw[r].status = "401"

\* C8 (amended): with an X-API-Key header present, an unsuccessful
\* validation never reaches the handler nor sets the principal, and is
\* answered 401 for an inactive key or an IdentiesAuthenticationError, 400
\* for an IdentiesValidationError, 503 for an IdentiesClientError or
\* IdentiesServerError, and 500 for any other error; only an active key
\* sets the principal and continues to the handler.
C8_FailureStatusByClass ==
    \A r \in MwRequests :
        (NonSkipped(r) /\ ApiKeyChecked(r))
        => LET e == mw[r].res
           IN IF e \in {"active", "active-no-user"}
              THEN mw[r].handler = 1 /\ mw[r].user = IntrospectUser(e)
              ELSE /\ mw[r].handler = 0
                   /\ mw[r].user = Absent
                   /\ mw[r].status =
                        CASE e \in {"inactive", "IdentiesAuthenticationError"}
                               -> "401"
                          [] e = "IdentiesValidationError" -> "400"
                          [] e \in {"IdentiesClientError",
                                    "IdentiesServerError"} -> "503"
                          [] OTHER -> "500"

C8_UnavailableSeen ==
    \E r \in MwRequests :
        /\ NonSkipped(r) /\ ApiKeyChecked(r)
        /\ mw[r].res = "IdentiesServerError" /\ mw[r].status = "503"
        /\ mw[r].handler = 0

(***************************************************************************)
(* Properties of the machine-token client.                                 *)
(***************************************************************************)
\* C5: after a get_token / get_token_sync call that missed the cache and
\* fetched a token successfully, the token cache holds that token under
\* the key of the effective client_id and audience.
C5_FetchedTokenIsCached ==
    \A a \in TokenCallers :
        (m2m[a].pc = "done" /\ ~m2m[a].hit /\ m2m[a].requests = 1
            /\ m2m[a].result = "token")
        => \E e \in tokenStore :
              /\ e.key = GetCacheKey("m2m_token", m2m[a].key)
              /\ JsonLoads(JsonLoads(e.val)) = m2m[a].token

(***************************************************************************)
(* Properties of the authorize guard: rejections and error mapping.        *)
(***************************************************************************)
\* the exception classes of the authorization service (custos/exceptions.py)
CustosClasses ==
    {"CustosError", "CustosClientError", "CustosServerError",
     "CustosAuthenticationError", "CustosNotFoundError",
     "CustosValidationError"}

\* C11: an invocation whose call to the authorization service raised an
\* error of one of the service's classes ends in an HTTP status --
\* authentication error 401, validation error 400, client or server error
\* 503, any other class 500 -- and never lets the raw exception escape.
C11_ErrorClassMapped ==
    \A p \in GuardProcs :
        (Returned(p) /\ guard[p].err \in CustosClasses)
        => guard[p].outcome =
              CASE guard[p].err = "CustosAuthenticationError" -> "401"
                [] guard[p].err = "CustosValidationError" -> "400"
                [] guard[p].err \in {"CustosClientError",
                                     "CustosServerError"} -> "503"
                [] OTHER -> "500"

\* the request carries a credential and a principal with an identifier,
\* and its domain resolver raises
ResolverFails(req) ==
    /\ ExtractAuthToken(req.auth).ok
    /\ req.user.set
    /\ HasValue(req.user.id) \/ HasValue(req.user.user_id)
    /\ req.dom \in {"Exception", "HTTPException"}

Untouched(p) ==
    /\ guard[p].reads = 0
    /\ guard[p].calls = 0
    /\ guard[p].wlog = <<>>
    /\ ~guard[p].cache

\* C12 (as claimed): whenever the domain resolver raises any exception,
\* the guard rejects with 400 and consults neither the decision cache nor
\* the authorization service.
C12_ResolverFailureIs400 ==
    \A p \in GuardProcs :
        (Returned(p) /\ ResolverFails(guard[p].req))
        => (guard[p].outcome = "400" /\ Untouched(p))

\* C12 (amended): when the domain resolver raises, the guard consults
\* neither the decision cache nor the authorization service; an
\* HTTPException raised by the resolver propagates unchanged, with its own
\* status, and any other exception is rejected with 400.
C12_ResolverFailureRejected ==
    \A p \in GuardProcs :
        (Returned(p) /\ ResolverFails(guard[p].req))
        => /\ Untouched(p)
           /\ guard[p].resolved
           /\ guard[p].req.dom = "HTTPException"
                 => (guard[p].outcome = "raise"
                        /\ guard[p].err = "HTTPException")
           /\ guard[p].req.dom = "Exception" => guard[p].outcome = "400"

C12_ResolverRaised ==
    \E p \in GuardProcs :
        /\ Returned(p) /\ ResolverFails(guard[p].req)
        /\ guard[p].req.dom = "Exception"
        /\ guard[p].outcome = "400" /\ guard[p].resolved

\* the Authorization header is missing, empty, or not of the Bearer scheme
NoBearerCredential(h) ==
    \/ ~h.has
    \/ h.val = <<>>
    \/ ~StartsWith(h.val, BearerPrefix)

\* C13: a request without a bearer credential (no Authorization header,
\* an empty one, or one not of the Bearer scheme) is rejected with 401
\* before the domain is resolved, the cache read or the service called.
C13_NoBearerIs401 ==
    \A p \in GuardProcs :
        (guard[p].pc # "idle" /\ NoBearerCredential(guard[p].req.auth))
        => /\ guard[p].pc = "done"
           /\ guard[p].outcome = "401"
           /\ ~guard[p].resolved
           /\ Untouched(p)

HasIdentifier(u) == u.set /\ (HasValue(u.id) \/ HasValue(u.user_id))

\* C14: for a request that carries a credential, the guard goes on only
\* when the principal slot is set and the principal has an identifier,
\* and then uses `id` when it is present and non-null and `user_id`
\* otherwise; when the slot is unset or the principal has neither, it
\* rejects with 401 without invoking the resolver, the cache or the
\* authorization service.
C14_PrincipalIdPrecedence ==
    \A p \in GuardProcs :
        LET r == guard[p]
            u == r.req.user
        IN (r.pc # "idle" /\ ExtractAuthToken(r.req.auth).ok)
           => IF HasIdentifier(u)
              THEN /\ r.resolved
                   /\ r.tup # NoTuple
                         => r.tup.uid = IF HasValue(u.id) THEN u.id
                                        ELSE u.user_id
              ELSE /\ r.pc = "done"
                   /\ r.outcome = "401"
                   /\ ~r.resolved
                   /\ Untouched(p)

C14_IdPreferred ==
    \E p \in GuardProcs :
        /\ Returned(p) /\ guard[p].calls = 1
        /\ guard[p].req.user = User("u1", "u2")
        /\ guard[p].tup.uid = "u1"

C14_PendingOnboardingRejected ==
    \E p \in GuardProcs :
        /\ Returned(p) /\ guard[p].outcome = "401"
        /\ ExtractAuthToken(guard[p].req.auth).ok
        /\ guard[p].req.user = User(Absent, PyNone)

(***************************************************************************)
(* Properties of TokenHandler.                                             *)
(***************************************************************************)
\* C15: verify of an empty or null token fails with the unauthenticated
\* classification (HTTP 401), not forbidden, and queries no provider's
\* signing-key source.
C15_EmptyTokenUnauthenticated ==
    (verifier.pc = "done" /\ verifier.token \in {PyNone, ""})
    => /\ ExceptionStatus(verifier.result) = "401"
       /\ verifier.tried = <<>>

Failed(t) == t.key # "key" \/ t.decode = "InvalidTokenError"

C17_BuiltHandlerHasProvider ==
    /\ handler.state = "built" => Len(handler.providers) >= 1
    /\ (handler.state # "none"
          /\ WithKeySource(GetAuthProviders(authCfg).providers) = <<>>)
       => handler.state = "failed"

(***************************************************************************)
(* Properties of the middleware: rejections.                               *)
(***************************************************************************)
\* C18: with no API key present, a JWT verification failure classified
\* unauthenticated (401) is answered 401 and one classified forbidden
\* (403) is answered 403; the handler is not invoked in either case.
C18_JwtFailureStatus ==
    \A r \in MwRequests :
        (NonSkipped(r) /\ mw[r].via = "jwt"
            /\ mw[r].res \in {"HTTP401", "HTTP403"})
        => /\ mw[r].pc = "done"
           /\ mw[r].handler = 0
           /\ mw[r].user = Absent
           /\ mw[r].res = "HTTP401" => mw[r].status = "401"
           /\ mw[r].res = "HTTP403" => mw[r].status = "403"

C18_ForbiddenSeen ==
    \E r \in MwRequests :
        /\ NonSkipped(r) /\ mw[r].via = "jwt" /\ mw[r].jwt = 1
        /\ mw[r].res = "HTTP403" /\ mw[r].status = "403"
        /\ mw[r].handler = 0

\* the request has no usable X-API-Key header and no Authorization header
\* of the Bearer scheme
NoCredential(req) ==
    /\ ~req.apikey.has \/ req.apikey.val = ""
    /\ ~req.auth.has \/ req.auth.val = <<>>
         \/ ~StartsWith(req.auth.val, BearerPrefix)

\* C19: a non-skipped request carrying neither an API key nor a bearer
\* credential is answered 401 with the body
\* {"error": "Missing or invalid token"}; no validator is called and the
\* handler is not invoked.
C19_NoCredentialIs401 ==
    \A r \in MwRequests :
        (NonSkipped(r) /\ NoCredential(mw[r].req))
        => /\ mw[r].pc = "done"
           /\ mw[r].status = "401"
           /\ mw[r].body = "Missing or invalid token"
           /\ mw[r].jwt = 0
           /\ mw[r].sent = <<>>
           /\ mw[r].handler = 0

C19_WrongSchemeRejected ==
    \E r \in MwRequests :
        /\ NonSkipped(r) /\ mw[r].pc = "done"
        /\ mw[r].req.auth = Hdr(<<"bearer", " ", "jwt">>)
        /\ mw[r].status = "401" /\ mw[r].jwt = 0

(***************************************************************************)
(* Properties of the credential extractors.                                *)
(***************************************************************************)
Trimmed(q) == q = <<>> \/ (~IsSpace(q[1]) /\ ~IsSpace(q[Len(q)]))

\* no value held under either name is a string with a non-blank character
NothingUsable(headers, lower, canonical) ==
    \A pr \in headers.items :
        pr[1] \in {lower, canonical}
        => (pr[2].t # "str" \/ \A k \in 1..Len(pr[2].s) : IsSpace(pr[2].s[k]))

\* C20: on every header collection the extractors never raise, the
\* presence check is true exactly when the extraction returns a non-empty
\* string, the extracted string is trimmed, and both report absence when
\* neither case-variant of the header holds a non-blank string.
C20_PresenceMatchesExtraction ==
    LET e == extract
    IN /\ e.raised = {}
       /\ {"has_bearer_token_header", "get_bearer_token"} \subseteq e.called
             => (e.hasBearer <=> e.bearer # <<>>)
       /\ {"has_api_key_header", "get_api_key"} \subseteq e.called
             => (e.hasKey <=> e.key # <<>>)
       /\ Trimmed(e.bearer) /\ Trimmed(e.key)
       /\ NothingUsable(e.headers, "authorization", "Authorization")
             => (~e.hasBearer /\ e.bearer = <<>>)
       /\ NothingUsable(e.headers, "x-api-key", "X-API-Key")
             => (~e.hasKey /\ e.key = <<>>)

C20_BearerExtracted ==
    /\ extract.called = Extractors
    /\ ~extract.headers.get
    /\ extract.hasBearer /\ extract.bearer = <<"tok">>
    /\ extract.hasKey /\ extract.key = <<"bearer", " ", "\t", "tok">>

(***************************************************************************)
(* Properties of the machine-token client: cache and timeout.              *)
(***************************************************************************)
\* the store holds, unexpired, the serialized token t under the key
HoldsToken(store, key, t) ==
    \E e \in store :
        /\ e.key = GetCacheKey("m2m_token", key)
        /\ now < e.exp
        /\ e.val = JsonDumps(JsonDumps(t))

\* C21: whenever a token response is written to the cache, the TTL of the
\* write is max(expires_in - cache_buffer_seconds, 1): the entry expires
\* that many seconds after the write.
C21_TtlIsBufferedExpiry ==
    [][\A e \in tokenStore' \ tokenStore :
          \A t \in CachedTokens :
             e.val = JsonDumps(JsonDumps(t))
             => LET d == t.expires_in - m2mCfg.buffer
                IN e.exp = now' + (IF d >= 1 THEN d ELSE 1)]_vars

C21_FloorWritten ==
    \E e \in tokenStore :
        /\ e.val = JsonDumps(JsonDumps(Token("brief", 30)))
        /\ m2mCfg.buffer = 60
        /\ e.exp = now + 1

HasCredentials(call) ==
    /\ OrElse(call.client_id, m2mCfg.client_id) # ""
    /\ OrElse(call.client_secret, m2mCfg.client_secret) # ""

\* C22: a get_token call with force_refresh=True never reads the cache
\* and never returns a cached token; with credentials available it issues
\* exactly one request to the token endpoint and returns that response.
C22_ForceRefreshBypassesCache ==
    \A a \in TokenCallers :
        LET r == m2m[a]
        IN (r.pc # "idle" /\ r.call.force /\ ~r.call.sync)
           => /\ r.reads = 0
              /\ ~r.hit
              /\ (r.pc = "done" /\ HasCredentials(r.call))
                    => /\ r.requests = 1
                       /\ r.result = "token"
                             => \E res \in EndpointResults :
                                   res.kind = "ok" /\ r.token = res.token

C22_FreshDespiteWarmCache ==
    \E a \in TokenCallers :
        /\ m2m[a].pc = "done" /\ m2m[a].call.force
        /\ m2m[a].requests = 1 /\ m2m[a].token = Token("fresh", 120)
        /\ HoldsToken(tokenStore, m2m[a].key, Token("cached", 120))

\* C23: a get_token call with force_refresh=false that finds, with the
\* store reachable, a valid serialized token under the key of the
\* effective client_id and audience returns that token and makes no
\* request to the token endpoint.
C23_CachedTokenReturned ==
    [][\A a \in TokenCallers : \A t \in CachedTokens :
          (/\ m2m[a].pc = "idle" /\ m2m'[a].pc # "idle"
           /\ ~m2m'[a].call.sync /\ ~m2m'[a].call.force
           /\ ~m2m'[a].fault
           /\ HoldsToken(tokenStore, m2m'[a].key, t))
          => /\ m2m'[a].pc = "done"
             /\ m2m'[a].hit
             /\ m2m'[a].result = "token"
             /\ m2m'[a].token = t
             /\ m2m'[a].requests = 0]_vars

C23_ServedFromCache ==
    \E a \in TokenCallers :
        /\ m2m[a].pc = "done" /\ m2m[a].hit /\ ~m2m[a].call.force
        /\ m2m[a].token = Token("cached", 120)
        /\ m2m[a].requests = 0

\* the store holds, unexpired, something under the key that is not the
\* JSON of a token response
HoldsNoise(store, key) ==
    \E e \in store :
        /\ e.key = GetCacheKey("m2m_token", key)
        /\ now < e.exp
        /\ e.val = JsonDumps(NotJson)

\* C24: a cache failure never fails a token request: a failed store read
\* is a miss, a failed store write changes nothing, and a get_token call
\* whose cache lookup fails or finds a value that does not deserialize
\* goes on to fetch a fresh token instead of raising.
C24_CacheFailureIsMiss ==
    [][/\ \A a \in TokenCallers :
            (/\ m2m[a].pc = "idle" /\ m2m'[a].pc # "idle"
             /\ ~m2m'[a].call.sync /\ ~m2m'[a].call.force
             /\ m2m'[a].fault \/ HoldsNoise(tokenStore, m2m'[a].key))
            => /\ m2m'[a].pc = "thread"
               /\ ~m2m'[a].hit
               /\ m2m'[a].result = "none"
       /\ \A k \in TokenKeys :
            /\ CacheRead(tokenStore, "m2m_token", k, FALSE) = Miss
            /\ CacheWrite(tokenStore, "m2m_token", k, NotJson, 0, FALSE,
                          NoWriter) = tokenStore]_vars

C24_FetchedAfterFailedRead ==
    \E a \in TokenCallers :
        /\ m2m[a].pc = "done" /\ m2m[a].fault
        /\ m2m[a].requests = 1 /\ m2m[a].result = "token"

\* C28: when a _request_token call that sent its request completes --
\* with a token, with an endpoint error or with an invalid response --
\* the client's timeout is the value it had when the call saved it.
C28_TimeoutRestored ==
    \A a \in TokenCallers :
        (m2m[a].pc = "done" /\ m2m[a].requests = 1)
        => clientTimeout = m2m[a].orig

C28_RestoredAfterInvalidResponse ==
    \E a \in TokenCallers :
        /\ m2m[a].pc = "done" /\ m2m[a].requests = 1
        /\ m2m[a].result = "ValueError"
        /\ m2m[a].call.timeout # m2m[a].orig
        /\ clientTimeout = m2m[a].orig

\* C29: once all overlapping token requests have completed, the client's
\* timeout is its constructed value, and every request was sent with the
\* timeout of its own call.
C29_TimeoutsDoNotLeak ==
    /\ (\A a \in TokenCallers : m2m[a].pc \in {"idle", "done"})
          => clientTimeout = m2mCfg.timeout
    /\ \A a \in TokenCallers :
          m2m[a].requests = 1 => m2m[a].sentWith = m2m[a].call.timeout

(***************************************************************************)
(* Properties of TokenHandler: the error reported.                         *)
(***************************************************************************)
\* the error of an attempt: of the key resolution, else of the decode
AttemptError(t) == IF t.key # "key" THEN t.key ELSE t.decode

\* the configured descriptors that have a signing-key source
Attemptable ==
    LET ps == GetAuthProviders(authCfg).providers
    IN {k \in 1..Len(ps) : ps[k].jwks_url # ""}

NoDepReturned == \A r \in DepCallers : dep[r].pc # "done"

DepTokens == {"", "jwt"}

\* where the session comes from: the db argument, the database_manager
\* argument, or the module global
DepSources == {"db", "param", "global"}

\* database_manager.SessionLocal()
SessionResults == {"session", "SQLAlchemyError"}

\* set_database_manager
SetDatabaseManager(m) ==
    /\ databaseManager # m
    /\ databaseManager' = m
    /\ UNCHANGED <<dep, nonDepVars>>

\* lines 66-70: the session the call works with
VerifyTokenDependency(r, token, how, res) ==
    /\ dep[r].pc = "idle"
    /\ how = "db" => res = "session"
    /\ dep' = [dep EXCEPT ![r] =
          IF how = "db"
          THEN [@ EXCEPT !.pc = "construct", !.token = token,
                         !.handed = TRUE, !.db = "open"]
          ELSE IF how = "global" /\ ~databaseManager
          THEN [@ EXCEPT !.pc = "done", !.token = token,
                         !.result = "RuntimeError"]
          ELSE IF res = "session"
          THEN [@ EXCEPT !.pc = "construct", !.token = token,
                         !.db = "open"]
          ELSE [@ EXCEPT !.pc = "done", !.token = token, !.result = res]]
    /\ UNCHANGED <<databaseManager, nonDepVars>>

\* VerifyToken(db): ValueError when oidc_domain is not configured
ConstructResults == {"verifier", "ValueError"}

ConstructVerifier(r, res) ==
    /\ dep[r].pc = "construct"
    /\ dep' = [dep EXCEPT ![r] =
          IF res = "verifier"
          THEN [@ EXCEPT !.pc = "verify"]
          ELSE [@ EXCEPT !.pc = "finally", !.result = res]]
    /\ UNCHANGED <<databaseManager, nonDepVars>>

\* VerifyToken.verify: what it returns or raises
VerifyResults ==
    {"user", "onboarding", "HTTP401", "UnauthorizedException", "KeyError",
     "LookupError"}

DepVerify(r, res) ==
    /\ dep[r].pc = "verify"
    /\ dep' = [dep EXCEPT ![r] =
          IF dep[r].token = ""
          THEN [@ EXCEPT !.pc = "finally",
                         !.result = "UnauthenticatedException"]
          ELSE IF res \in {"user", "onboarding"}
          THEN [@ EXCEPT !.pc = "finally", !.result = "returned",
                         !.user = res]
          ELSE [@ EXCEPT !.pc = "finally", !.result = res]]
    /\ UNCHANGED <<databaseManager, nonDepVars>>

\* (variant) the session is closed only after a successful verification
DepFinally_OnSuccess(r) ==
    /\ dep[r].pc = "finally"
    /\ dep' = [dep EXCEPT ![r] =
          IF dep[r].result = "returned"
          THEN [@ EXCEPT !.pc = "done", !.db = "closed"]
          ELSE [@ EXCEPT !.pc = "done"]]
    /\ UNCHANGED <<databaseManager, nonDepVars>>

\* finally: db.close()
DepFinally(r) ==
    /\ dep[r].pc = "finally"
    /\ dep' = [dep EXCEPT ![r] = [@ EXCEPT !.pc = "done", !.db = "closed"]]
    /\ UNCHANGED <<databaseManager, nonDepVars>>

\* the call has returned or raised; the request is over
DepReturn(r) ==
    /\ dep[r].pc = "done"
    /\ dep' = [dep EXCEPT ![r] = IdleDep]
    /\ UNCHANGED <<databaseManager, nonDepVars>>

InitDep ==
    /\ databaseManager = FALSE
    /\ dep = [r \in DepCallers |-> IdleDep]
    /\ AuthzAtRest
    /\ ApiKeyAtRest
    /\ MwAtRest
    /\ M2mAtRest
    /\ HandlersAtRest

NextDep ==
    \/ \E m \in BOOLEAN : NoDepReturned /\ SetDatabaseManager(m)
    \/ \E r \in DepCallers, token \in DepTokens, how \in DepSources,
          res \in SessionResults :
            NoDepReturned /\ VerifyTokenDependency(r, token, how, res)
    \/ \E r \in DepCallers, res \in ConstructResults :
            NoDepReturned /\ ConstructVerifier(r, res)
    \/ \E r \in DepCallers, res \in VerifyResults :
            NoDepReturned /\ DepVerify(r, res)
    \/ \E r \in DepCallers : NoDepReturned /\ DepFinally(r)
    \/ \E r \in DepCallers : DepReturn(r)

SpecDep == InitDep /\ [][NextDep]_vars

\* C26: when verify_token_dependency has returned or raised, the session
\* it worked with is closed, whether it was handed in or created, and
\* whatever the outcome; no session is left only when none was obtained.
C26_SessionClosed ==
    \A r \in DepCallers :
        dep[r].pc = "done" =>
            \/ dep[r].db = "closed"
            \/ /\ dep[r].db = "none"
               /\ ~dep[r].handed
               /\ dep[r].result \in {"RuntimeError", "SQLAlchemyError"}

C26_ClosedAfterConstructorError ==
    /\ dep["r1"].pc = "done" /\ dep["r1"].result = "ValueError"
    /\ dep["r1"].db = "closed" /\ ~dep["r1"].handed
    /\ dep["r2"].pc = "verify" /\ dep["r2"].handed

(***************************************************************************)
(* Properties of the authorize guard: races and key separation.            *)
(***************************************************************************)
Decided(p) == Returned(p) /\ guard[p].outcome \in {"True", "403"}

\* C27: under any interleaving of guards, every entry in the store is the
\* verdict the authorization service returned for the tuple of the guard
\* that wrote it, stored under that tuple's key; and every guard that
\* ends in True or 403 ends in a verdict the service returned for its
\* tuple: the one returned to its own call, or the one held in the store
\* for its tuple when it read.
C27_RaceOnlyRepeatsCalls ==
    /\ \A e \in authzStore :
          /\ e.key = GetCacheKey("authorization", TupleKey(e.tup))
          /\ e.val = JsonDumps(VerdictEntry(e.by = "True"))
    /\ \A p \in GuardProcs :
          Decided(p) =>
            \/ /\ guard[p].calls = 1
               /\ guard[p].outcome =
                     IF guard[p].verdict = "allow" THEN "True" ELSE "403"
            \/ /\ guard[p].calls = 0
               /\ guard[p].live.found
               /\ guard[p].outcome = guard[p].live.by

InFlight(p) == guard[p].tup # NoTuple

\* C30: guards deciding different tuples use different cache keys, and a
\* guard whose cache read returned an entry found the store holding a
\* decision for its own tuple.
C30_KeysSeparateTuples ==
    /\ \A p, q \in GuardProcs :
          (InFlight(p) /\ InFlight(q) /\ guard[p].tup # guard[q].tup)
          => TupleKey(guard[p].tup) # TupleKey(guard[q].tup)
    /\ \A p \in GuardProcs :
          (Returned(p) /\ guard[p].hit.found) => guard[p].live.found

====
